---- MODULE Spec2Model ----
(***************************************************************************)
(* Model of the LLMLayer JavaScript client (src/src/client.ts, API v2):    *)
(* the SSE data-frame decoder, the stream consumers streamAnswer and       *)
(* crawlStream, and the error classifier (buildErr, raiseHttp).            *)
(*                                                                         *)
(* Text is a sequence of characters.  A character is a TLA+ string: the    *)
(* characters the code inspects ('d','a','t',':',CR,LF,' ') are single     *)
(* characters; a run of JSON text the code never looks inside (a key with  *)
(* its colon, a string literal) is carried as one character whose name is  *)
(* the text it stands for.  Every character is one byte on the wire except *)
(* EAcute, which is the two bytes C3 A9.                                   *)
(***************************************************************************)
EXTENDS Integers, Sequences, FiniteSets, TLC

VARIABLES
    op,       \* the operation running: "frames", "streamAnswer", "crawlStream"
    body,     \* the response body: the bytes the transport will deliver
    pos,      \* number of bytes of body already pulled from the transport
    dec,      \* TextDecoder state: bytes of an incomplete character
    buf,      \* iterateSSEDataFrames: buf
    dataBuf,  \* iterateSSEDataFrames: dataBuf
    pc,       \* where iterateSSEDataFrames is suspended
    out,      \* the frames delivered to the consumer so far, in order
    st,       \* the consumer's view of the stream: "Open", "Errored", "Ended"
    err,      \* the error raised to the consumer (NoErr when none)
    last,     \* the frame the decoder yielded most recently (NoFrame when none)
    late,     \* pulls by the consumer after the stream has terminated
    splitChar, \* history: some chunk ended inside a multi-byte character
    sent,     \* history: the events the upstream put in the body
    req,      \* classifier calls: the response handed to the function under study
    res,      \* classifier calls: what the function did with it
    timer,    \* the call's timeout signal: "none", "running", "expired" (the
              \* transport was aborted), "expired late" (it had finished before)
    env,      \* the runtime: process.env.LLMLAYER_API_KEY, globalThis.fetch, undici
    client,   \* the LLMLayerClient object: apiKey, baseURL, timeout
    io,       \* history: the calls made, the transport resolutions and the
              \* requests sent, in order
    other,    \* two concurrent calls: the locals of the call that is suspended
              \* while the other one runs
    reader    \* toAsyncIterable: whether it reads the body through a reader of
              \* its own, whether getReader was called, the number of
              \* releaseLock calls, and whether a read followed a release

streamVars == <<op, body, pos, dec, buf, dataBuf, pc, out, st, err, last, late, splitChar, sent>>
vars == <<streamVars, req, res, timer, env, client, io, other, reader>>

----------------------------------------------------------------------------
(* Bounds *)

MaxLines == 3
MaxEvents == 2
MaxLate == 1
MaxGroups == 2
MaxKeyLen == 3
MaxCalls == 2

\* opts.timeoutMs ?? 60_000 (line 239)
DefaultTimeoutMs == 60000

----------------------------------------------------------------------------
(* Characters and bytes *)

LF == "LF"
CR == "CR"
SP == " "
QUOTE == "QUOTE"
EAcute == "EAcute"
Replacement == "U+FFFD"

ByteC3 == "C3"
ByteA9 == "A9"

Whitespace == {SP, LF, CR}

\* TextEncoder: the bytes of one character
EncodeChar(c) == IF c = EAcute THEN <<ByteC3, ByteA9>> ELSE <<c>>

\* the characters of a sequence of character slots, NoChar marking an empty slot
NoChar == "none"
Present(c) == c # NoChar

Encode(text) ==
    SelectSeq([i \in 1..(2 * Len(text)) |->
                 LET e == EncodeChar(text[(i + 1) \div 2])
                 IN  IF i % 2 = 1 THEN e[1] ELSE IF Len(e) = 2 THEN e[2] ELSE NoChar],
              Present)

\* TextDecoder.decode(chunk, {stream: true}): pending holds the bytes of a
\* character that the previous chunks left incomplete. A lead byte with its
\* continuation byte is the character; a lead byte at the end of the chunk
\* stays pending; any other lead or continuation byte is U+FFFD.
DecodeStream(pending, bytes) ==
    LET w == pending \o bytes
        n == Len(w)
        char(i) ==
            IF w[i] = ByteC3
            THEN (IF i = n THEN NoChar ELSE IF w[i + 1] = ByteA9 THEN EAcute ELSE Replacement)
            ELSE IF w[i] = ByteA9
            THEN (IF i > 1 /\ w[i - 1] = ByteC3 THEN NoChar ELSE Replacement)
            ELSE w[i]
    IN  [text |-> SelectSeq([i \in 1..n |-> char(i)], Present),
         pending |-> IF n > 0 /\ w[n] = ByteC3 THEN <<ByteC3>> ELSE <<>>]

\* decoder.decode(chunk) without {stream: true}: every chunk is decoded on its
\* own and a character left incomplete at its end becomes U+FFFD
DecodeEachChunkAlone(pending, bytes) ==
    LET r == DecodeStream(<<>>, bytes)
    IN  [text |-> r.text \o (IF r.pending = <<>> THEN <<>> ELSE <<Replacement>>),
         pending |-> <<>>]

\* line 179: decoder.decode(chunk, { stream: true })
Decode(pending, bytes) == DecodeStream(pending, bytes)

----------------------------------------------------------------------------
(* JSON values and JSON.parse *)

\* A JSON value is [k |-> kind, v |-> content]: a string holds its characters,
\* an object holds a function from its keys to values.
Str(chars) == [k |-> "str", v |-> chars]
Obj(f) == [k |-> "obj", v |-> f]
JTrue == [k |-> "true", v |-> <<>>]
JNull == [k |-> "null", v |-> <<>>]
Undefined == [k |-> "undefined", v |-> <<>>]
NoFrame == [k |-> "none", v |-> <<>>]

\* The characters that stand for an object key and its colon, and the key each names
KeyName ==
    [c \in {"\"type\":", "\"error\":", "\"error_type\":", "\"message\":", "\"detail\":"} |->
        CASE c = "\"type\":" -> "type"
          [] c = "\"error\":" -> "error"
          [] c = "\"error_type\":" -> "error_type"
          [] c = "\"message\":" -> "message"
          [] c = "\"detail\":" -> "detail"]
KeyChars == DOMAIN KeyName

\* The characters that stand for a whole string literal, and the string each denotes
LitText ==
    [c \in {"\"answer\"", "\"done\"", "\"error\"", "\"missing_query\"", "\"boom\"",
            "\"rate_limit\"", "\"slow down\"", "\"Structured Output unsupported\""} |->
        CASE c = "\"answer\"" -> "answer"
          [] c = "\"done\"" -> "done"
          [] c = "\"error\"" -> "error"
          [] c = "\"missing_query\"" -> "missing_query"
          [] c = "\"boom\"" -> "boom"
          [] c = "\"rate_limit\"" -> "rate_limit"
          [] c = "\"slow down\"" -> "slow down"
          [] c = "\"Structured Output unsupported\"" -> "Structured Output unsupported"]
LitChars == DOMAIN LitText

RECURSIVE SkipWs(_, _)
SkipWs(t, i) == IF i <= Len(t) /\ t[i] \in Whitespace THEN SkipWs(t, i + 1) ELSE i

\* index of the quote closing a string opened before i, 0 when a control
\* character or the end of the text comes first
RECURSIVE CloseQuote(_, _)
CloseQuote(t, i) ==
    IF i > Len(t) THEN 0
    ELSE IF t[i] = QUOTE THEN i
    ELSE IF t[i] \in {LF, CR} THEN 0
    ELSE CloseQuote(t, i + 1)

ParseFail == [ok |-> FALSE, val |-> NoFrame, next |-> 0]

RECURSIVE ParseValue(_, _), ParseMembers(_, _, _, _)
\* a value starting at t[i]; next is the index after it
ParseValue(t, i) ==
    IF i > Len(t) THEN ParseFail
    ELSE IF t[i] \in LitChars THEN [ok |-> TRUE, val |-> Str(<<LitText[t[i]]>>), next |-> i + 1]
    ELSE IF t[i] = "true" THEN [ok |-> TRUE, val |-> JTrue, next |-> i + 1]
    ELSE IF t[i] = "null" THEN [ok |-> TRUE, val |-> JNull, next |-> i + 1]
    ELSE IF t[i] = QUOTE
    THEN LET j == CloseQuote(t, i + 1)
         IN  IF j = 0 THEN ParseFail
             ELSE [ok |-> TRUE, val |-> Str(SubSeq(t, i + 1, j - 1)), next |-> j + 1]
    ELSE IF t[i] = "{" THEN ParseMembers(t, SkipWs(t, i + 1), <<>>, TRUE)
    ELSE ParseFail

\* the members of an object after its brace; first: no member read yet
ParseMembers(t, i, acc, first) ==
    IF i > Len(t) THEN ParseFail
    ELSE IF first /\ t[i] = "}" THEN [ok |-> TRUE, val |-> Obj(acc), next |-> i + 1]
    ELSE IF t[i] \notin KeyChars THEN ParseFail
    ELSE LET r == ParseValue(t, SkipWs(t, i + 1))
         IN  IF ~r.ok THEN ParseFail
             ELSE LET j == SkipWs(t, r.next)
                      key == KeyName[t[i]]
                      acc2 == [x \in (DOMAIN acc) \cup {key} |-> IF x = key THEN r.val ELSE acc[x]]
                  IN  IF j > Len(t) THEN ParseFail
                      ELSE IF t[j] = "}" THEN [ok |-> TRUE, val |-> Obj(acc2), next |-> j + 1]
                      ELSE IF t[j] = "," THEN ParseMembers(t, SkipWs(t, j + 1), acc2, FALSE)
                      ELSE ParseFail

\* JSON.parse(text): ok is FALSE where JSON.parse throws
JSONParse(text) ==
    LET r == ParseValue(text, SkipWs(text, 1))
    IN  IF r.ok /\ SkipWs(text, r.next) = Len(text) + 1
        THEN [ok |-> TRUE, val |-> r.val]
        ELSE [ok |-> FALSE, val |-> NoFrame]

----------------------------------------------------------------------------
(* JavaScript value semantics used by the classifier *)

IsObject(v) == v.k = "obj"
IsString(v) == v.k = "str"
\* typeof v === 'object'
TypeofObject(v) == v.k \in {"obj", "null"}
Nullish(v) == v.k \in {"null", "undefined"}
Truthy(v) ==
    CASE v.k = "obj" -> TRUE
      [] v.k = "true" -> TRUE
      [] v.k = "str" -> v.v # <<>>
      [] OTHER -> FALSE
\* v?.key
Get(v, key) == IF IsObject(v) /\ key \in DOMAIN v.v THEN v.v[key] ELSE Undefined
\* a ?? b
Coalesce(a, b) == IF Nullish(a) THEN b ELSE a
\* String(v)
JSString(v) ==
    CASE v.k = "str" -> v
      [] v.k = "obj" -> Str(<<"[object Object]">>)
      [] OTHER -> Str(<<v.k>>)
\* String.prototype.toLowerCase, character by character
LowerChar(c) ==
    CASE c = "Structured Output unsupported" -> "structured output unsupported"
      [] c = "MISSING_QUERY" -> "missing_query"
      [] c = "JSON" -> "json"
      [] c = "T" -> "t"
      [] OTHER -> c
ToLowerCase(s) == Str([i \in 1..Len(s.v) |-> LowerChar(s.v[i])])
\* s.includes('structured output')
IncludesStructuredOutput(s) ==
    \E i \in 1..Len(s.v) : s.v[i] = "structured output unsupported"

----------------------------------------------------------------------------
(* Error classes and the classifier: ERROR_MAP, classForStatus, unwrapDetail, buildErr *)

ErrorKinds ==
    {"InvalidRequest", "AuthenticationError", "ProviderError", "RateLimitError",
     "InternalServerError", "LLMLayerError"}

\* a thrown value that is not an LLMLayerError (a TypeError, a wrapper object)
Foreign == "Foreign"

\* the table without its backend-specific entries
ErrorMapCoreOnly ==
    [tag \in {"validation_error", "authentication_error", "provider_error", "rate_limit",
              "internal_error"} |->
        CASE tag = "validation_error" -> "InvalidRequest"
          [] tag = "authentication_error" -> "AuthenticationError"
          [] tag = "provider_error" -> "ProviderError"
          [] tag = "rate_limit" -> "RateLimitError"
          [] OTHER -> "InternalServerError"]

ErrorMapOwn ==
    [tag \in {"validation_error", "authentication_error", "provider_error", "rate_limit",
              "internal_error", "scraping_error", "search_error", "map_error",
              "crawl_stream_error"} |->
        CASE tag = "validation_error" -> "InvalidRequest"
          [] tag = "authentication_error" -> "AuthenticationError"
          [] tag = "provider_error" -> "ProviderError"
          [] tag = "rate_limit" -> "RateLimitError"
          [] OTHER -> "InternalServerError"]

\* names every object literal inherits from Object.prototype
InheritedNames == {"constructor", "toString", "__proto__"}

\* ERROR_MAP[etype]: "" stands for undefined
ERROR_MAP(etype) ==
    LET key == JSString(etype).v
    IN  IF Len(key) = 1 /\ key[1] \in DOMAIN ErrorMapOwn THEN ErrorMapOwn[key[1]]
        ELSE IF Len(key) = 1 /\ key[1] \in InheritedNames THEN Foreign
        ELSE ""

\* status 0 stands for a call without a status argument
classForStatus(status) ==
    IF status = 0 THEN "LLMLayerError"
    ELSE IF status = 400 THEN "InvalidRequest"
    ELSE IF status = 401 \/ status = 403 THEN "AuthenticationError"
    ELSE IF status = 429 THEN "RateLimitError"
    ELSE IF status >= 500 THEN "InternalServerError"
    ELSE "LLMLayerError"

\* a classifier that takes every payload as it is
unwrapNothing(payload) == payload

unwrapDetail(payload) ==
    IF ~Truthy(payload) \/ ~TypeofObject(payload) THEN payload
    ELSE LET d == Get(payload, "detail")
         IN  IF Truthy(d) /\ TypeofObject(d) THEN d
             ELSE IF IsString(d) THEN Obj([x \in {"message"} |-> d])
             ELSE payload

\* messages the client synthesizes
HttpMessage(status) == [k |-> "HTTP <status>", v |-> status]
StatusLine(status) == [k |-> "<status> <statusText>", v |-> status]
DefaultMessage == Str(<<"Error">>)
NoMessage == [k |-> "none", v |-> <<>>]

\* an error as the caller sees it; status 0: no status field; rid: the
\* request id was appended to the message
MkError(kind, message, status) ==
    [kind |-> kind, message |-> message, status |-> status, rid |-> FALSE]
NoErr == MkError("", NoMessage, 0)

buildErr(payload, status) ==
    LET data == unwrapDetail(payload)
        etype == Coalesce(Get(data, "error_type"), Get(data, "type"))
        m1 == Coalesce(Coalesce(Get(data, "message"), Get(data, "error")), Str(<<>>))
        m2 == IF ~Truthy(m1) /\ IsString(Get(payload, "detail"))
              THEN Get(payload, "detail") ELSE m1
        message == IF ~Truthy(m2)
                   THEN (IF status # 0 THEN HttpMessage(status) ELSE DefaultMessage)
                   ELSE JSString(m2)
        mapped == IF Truthy(etype) THEN ERROR_MAP(etype) ELSE ""
        Exc == IF mapped # "" THEN mapped ELSE classForStatus(status)
    IN  MkError(Exc, message, status)

----------------------------------------------------------------------------
(* iterateSSEDataFrames *)

DataPrefix == <<"d", "a", "t", "a", ":">>

\* a width that takes the space after the colon with the marker
PrefixWidthPastSpace == Len(DataPrefix) + 1

PrefixWidth == 5

\* buf.indexOf('\n'), 1-based; 0 when absent
RECURSIVE IndexFrom(_, _, _)
IndexFrom(b, c, i) ==
    IF i > Len(b) THEN 0 ELSE IF b[i] = c THEN i ELSE IndexFrom(b, c, i + 1)
IndexOfLF(b) == IndexFrom(b, LF, 1)

\* line.replace(/\r$/, '')
StripCR(line) ==
    IF Len(line) > 0 /\ line[Len(line)] = CR THEN SubSeq(line, 1, Len(line) - 1) ELSE line

\* buf.replace(/\r?\n$/, '')
StripEOL(b) ==
    IF Len(b) > 0 /\ b[Len(b)] = LF
    THEN StripCR(SubSeq(b, 1, Len(b) - 1))
    ELSE b

StartsWith(line, prefix) ==
    Len(line) >= Len(prefix) /\ SubSeq(line, 1, Len(prefix)) = prefix

\* line.slice(n)
Slice(line, n) == SubSeq(line, n + 1, Len(line))

\* dataBuf.join('')
RECURSIVE Join(_)
Join(parts) == IF parts = <<>> THEN <<>> ELSE Head(parts) \o Join(Tail(parts))

\* String.prototype.trim
RECURSIVE TrimStart(_), TrimEnd(_)
TrimStart(t) == IF t # <<>> /\ Head(t) \in Whitespace THEN TrimStart(Tail(t)) ELSE t
TrimEnd(t) ==
    IF t # <<>> /\ t[Len(t)] \in Whitespace THEN TrimEnd(SubSeq(t, 1, Len(t) - 1)) ELSE t
Trim(t) == TrimEnd(TrimStart(t))

\* the text an ended event hands to JSON.parse
EventText(db) == Trim(Join(db))

\* the fragment a data line adds to dataBuf
Fragment(line) == Slice(line, PrefixWidth)

Suspended(b, db) == [buf |-> b, dataBuf |-> db, yielded |-> FALSE, frame |-> NoFrame]

\* an accumulator that a flush empties only when it yields a frame
KeptOnFailure(db, parsed) == IF parsed THEN <<>> ELSE db

\* dataBuf = [] at the blank line, before the text is looked at
AfterFlush(db, parsed) == <<>>

\* The while loop over the lines of buf (lines 181-205), run until it yields
\* a frame or no complete line is left.
\* a line of a field other than data ends the event as a blank line does
EndsEventOrField(line) ==
    line = <<>> \/ ~(StartsWith(line, <<":">>) \/ StartsWith(line, DataPrefix))

\* the line that ends an event: the blank line (line 185)
EndsEvent(line) == line = <<>>

RECURSIVE Drain(_, _)
Drain(b, db) ==
    LET idx == IndexOfLF(b)
    IN  IF idx = 0 THEN Suspended(b, db)
        ELSE LET line == StripCR(SubSeq(b, 1, idx - 1))
                 rest == SubSeq(b, idx + 1, Len(b))
             IN  IF EndsEvent(line)
                 THEN IF Len(db) > 0
                      THEN LET raw == EventText(db)
                               p == JSONParse(raw)
                           IN  IF raw # <<>> /\ p.ok
                               THEN [buf |-> rest, dataBuf |-> AfterFlush(db, TRUE),
                                     yielded |-> TRUE, frame |-> p.val]
                               ELSE Drain(rest, AfterFlush(db, FALSE))
                      ELSE Drain(rest, db)
                 ELSE IF StartsWith(line, <<":">>) THEN Drain(rest, db)
                 ELSE IF StartsWith(line, DataPrefix) THEN Drain(rest, Append(db, Fragment(line)))
                 ELSE Drain(rest, db)

\* The flush after the last chunk (lines 208-217)
TailFlush(b, db) ==
    IF Len(b) > 0
    THEN LET lastLine == StripEOL(b)
         IN  IF StartsWith(lastLine, DataPrefix)
             THEN LET raw == Slice(lastLine, PrefixWidth)
                      p == JSONParse(raw)
                  IN  IF raw # <<>> /\ p.ok
                      THEN [buf |-> b, dataBuf |-> db, yielded |-> TRUE, frame |-> p.val]
                      ELSE Suspended(b, db)
             ELSE Suspended(b, db)
    ELSE Suspended(b, db)

\* the response a classifier call works on, and its outcome
NoJSON == [k |-> "not JSON", v |-> <<>>]
NoCall == [status |-> 0, payload |-> NoJSON, rid |-> FALSE]
\* no runtime and no client: the function under study uses neither
NoEnv == [key |-> Undefined, globalFetch |-> FALSE, undici |-> FALSE]
NoClient == [state |-> "none", apiKey |-> Undefined, timeout |-> Undefined]
Result(via, outcome, e, value) == [via |-> via, outcome |-> outcome, err |-> e, value |-> value]
NoResult == Result("", "pending", NoErr, NoFrame)

\* err.message += ` (request_id=${rid})` when the response has the header
WithRequestId(e, rid) == IF rid THEN [e EXCEPT !.rid = TRUE] ELSE e

\* raiseHttp, lines 495-509: payload is NoJSON where res.json() throws
raiseHttp(status, payload, rid) ==
    IF payload = NoJSON
    THEN WithRequestId(MkError("LLMLayerError", StatusLine(status), 0), rid)
    ELSE WithRequestId(buildErr(payload, status), rid)

\* res.ok
Ok(status) == status >= 200 /\ status <= 299

\* a blocking call after fetch resolved, lines 257-261 (answer; the other
\* blocking operations repeat these lines)
answer(status, payload, rid) ==
    IF ~Ok(status) THEN Result("answer", "raised", raiseHttp(status, payload, rid), NoFrame)
    ELSE IF payload = NoJSON
    THEN Result("answer", "raised", MkError(Foreign, NoMessage, 0), NoFrame)
    ELSE LET data == unwrapDetail(payload)
         IN  IF Truthy(data) /\ (Truthy(Get(data, "error_type")) \/ Truthy(Get(data, "error")))
             THEN Result("answer", "raised", buildErr(payload, status), NoFrame)
             ELSE Result("answer", "returned", NoErr, payload)

----------------------------------------------------------------------------
(* The stream consumers: the loop bodies of streamAnswer and crawlStream *)

KnownInvalid == {"missing_model", "missing_query", "invalid_model"}

Yield(data) == [raised |-> FALSE, data |-> data, err |-> NoErr]
Throw(e) == [raised |-> TRUE, data |-> NoFrame, err |-> e]

\* streamAnswer, lines 285-297
streamAnswerFrame(frame) ==
    LET data == unwrapDetail(frame)
        simple == Get(data, "error")
        s == ToLowerCase(JSString(simple))
    IN  IF Truthy(simple)
        THEN IF (Len(s.v) = 1 /\ s.v[1] \in KnownInvalid) \/ IncludesStructuredOutput(s)
             THEN Throw(MkError("InvalidRequest", JSString(simple), 0))
             ELSE Throw(MkError("LLMLayerError", JSString(simple), 0))
        ELSE IF Get(data, "type") = Str(<<"error">>) \/ Truthy(Get(data, "error_type"))
        THEN Throw(buildErr(data, 0))
        ELSE Yield(data)

\* crawlStream, lines 454-460
crawlStreamFrame(frame) ==
    LET data == unwrapDetail(frame)
        simple == Get(data, "error")
    IN  IF Get(data, "type") = Str(<<"error">>) \/ Truthy(Get(data, "error_type"))
        THEN Throw(buildErr(data, 0))
        ELSE IF Truthy(simple) /\ IsString(simple)
        THEN Throw(MkError("LLMLayerError", simple, 0))
        ELSE Yield(data)

\* a direct consumer of iterateSSEDataFrames takes every frame as it is
Consume(o, frame) ==
    CASE o = "streamAnswer" -> streamAnswerFrame(frame)
      [] o = "crawlStream" -> crawlStreamFrame(frame)
      [] OTHER -> Yield(frame)

----------------------------------------------------------------------------
(* Steps of a streaming call, from one suspension point to the next *)

\* a throw out of the consumer's for-await loop closes the decoder, which
\* never runs again (the faulty variant leaves it suspended at its yield)
PcResumableAfterThrow(atEnd) == IF atEnd THEN "yieldTail" ELSE "yieldLoop"
PcAfterThrow(atEnd) == "closed"

\* a stream that requires a completion marker before the end of the body
EndOfStreamNeedsDone ==
    IF \E i \in 1..Len(out) : Get(out[i], "type") = Str(<<"done">>)
    THEN [st |-> "Ended", err |-> NoErr]
    ELSE [st |-> "Errored", err |-> MkError("LLMLayerError", Str(<<"boom">>), 0)]

\* the decoder returned: the for-await loop ends and the call completes
EndOfStream == [st |-> "Ended", err |-> NoErr]

\* toAsyncIterable hands back a body that iterates itself (lines 149-151):
\* it obtains no reader
NoReader == [own |-> FALSE, got |-> FALSE, releases |-> 0, stray |-> FALSE]

\* The generator of lines 154-166 issues a read, the first one after it has
\* obtained its reader (line 155).
read(r, first) ==
    IF r.own
    THEN [r EXCEPT !.got = @ \/ first, !.stray = @ \/ r.releases > 0]
    ELSE r

\* a generator without try/finally: the reader is released after the loop only
ReleaseAfterLoopOnly(r, how) ==
    IF r.own /\ r.got /\ how = "done" THEN [r EXCEPT !.releases = @ + 1] ELSE r

\* The generator is left: by the break on done, by a read that rejects, or by
\* the return() that closes it at its yield. Its finally releases the reader
\* (lines 163-165).
Finally(r, how) ==
    IF r.own /\ r.got THEN [r EXCEPT !.releases = @ + 1] ELSE r

\* The decoder ran until r: a frame goes through the consumer's loop body,
\* which yields it or throws (closing the decoder); no frame leaves the
\* decoder where atEnd says: awaiting a chunk, or returned.
Advance(r, atEnd) ==
    /\ buf' = r.buf
    /\ dataBuf' = r.dataBuf
    /\ reader' = IF atEnd THEN Finally(reader, "done")
                 ELSE IF ~r.yielded THEN read(reader, FALSE)
                 ELSE IF Consume(op, r.frame).raised THEN Finally(reader, "throw")
                 ELSE reader
    /\ IF r.yielded
       THEN LET c == Consume(op, r.frame)
            IN  /\ last' = r.frame
                /\ IF c.raised
                   THEN /\ st' = "Errored"
                        /\ err' = c.err
                        /\ pc' = PcAfterThrow(atEnd)
                        /\ out' = out
                   ELSE /\ st' = "Open"
                        /\ err' = err
                        /\ pc' = IF atEnd THEN "yieldTail" ELSE "yieldLoop"
                        /\ out' = Append(out, c.data)
       ELSE /\ last' = last
            /\ err' = IF atEnd THEN EndOfStream.err ELSE err
            /\ out' = out
            /\ st' = IF atEnd THEN EndOfStream.st ELSE "Open"
            /\ pc' = IF atEnd THEN "returned" ELSE "await"

\* the consumer's first pull starts the decoder, which asks for a chunk
Start ==
    /\ pc = "start"
    /\ pc' = "await"
    /\ reader' = read(reader, TRUE)
    /\ UNCHANGED <<other, env, client, io, op, body, pos, dec, buf, dataBuf, out, st, err, last, late, splitChar, sent, req, res, timer>>

\* the consumer pulls again after a frame: the while loop goes on
Pull ==
    /\ pc = "yieldLoop"
    /\ Advance(Drain(buf, dataBuf), FALSE)
    /\ UNCHANGED <<other, env, client, io, op, body, pos, dec, late, splitChar, sent, req, res, timer>>

\* the consumer pulls again after the frame of the trailing flush: the decoder returns
PullTail ==
    /\ pc = "yieldTail"
    /\ st' = EndOfStream.st
    /\ err' = EndOfStream.err
    /\ pc' = "returned"
    /\ UNCHANGED <<reader, other, env, client, io, op, body, pos, dec, buf, dataBuf, out, last, late, splitChar, sent, req, res, timer>>

\* a transport that goes on delivering after its signal has aborted it
ReadableAlways == TRUE

\* the signal handed to fetch has not aborted the transport
Readable == timer # "expired"

\* a pipeline that reads on while the consumer holds a frame
DemandedOrHolding == pc \in {"await", "yieldLoop"}

\* the decoder is suspended in its for await: it has asked for a chunk
Demanded == pc = "await"

\* the transport delivers the next n bytes of the body as one chunk
Chunk(n) ==
    /\ Demanded
    /\ Readable
    /\ pos + n <= Len(body)
    /\ LET d == Decode(dec, SubSeq(body, pos + 1, pos + n))
       IN  /\ dec' = d.pending
           /\ splitChar' = (splitChar \/ d.pending # <<>>)
           /\ Advance(Drain(buf \o d.text, dataBuf), FALSE)
    /\ pos' = pos + n
    /\ UNCHANGED <<other, env, client, io, op, body, late, sent, req, res, timer>>

\* the transport reports the end of the body
EndOfInput ==
    /\ Demanded
    /\ Readable
    /\ pos = Len(body)
    /\ Advance(TailFlush(buf, dataBuf), TRUE)
    /\ UNCHANGED <<other, env, client, io, op, body, pos, dec, late, splitChar, sent, req, res, timer>>

\* a pull after the stream terminated finds it done
LatePull ==
    /\ pc \in {"closed", "returned"}
    /\ late < MaxLate
    /\ late' = late + 1
    /\ UNCHANGED <<reader, other, env, client, io, op, body, pos, dec, buf, dataBuf, pc, out, st, err, last, splitChar, sent, req, res, timer>>

----------------------------------------------------------------------------
(* Response bodies *)

\* the lines a body of the decoder's specification is made of
SSELines ==
    { <<>>,
      <<":", "k">>,
      DataPrefix \o <<SP, "{", "}">>,
      DataPrefix \o <<"{", "\"type\":">>,
      DataPrefix \o <<"\"answer\"", "}">>,
      DataPrefix \o <<QUOTE, EAcute, QUOTE>> }

EOLs == {<<LF>>, <<CR, LF>>}

RECURSIVE JoinLines(_, _)
JoinLines(lines, eol) ==
    IF lines = <<>> THEN <<>>
    ELSE Head(lines) \o eol \o JoinLines(Tail(lines), eol)

\* a text of n lines, every line ended by eol except, when open, the last one
TextOf(lines, eol, open) ==
    LET t == JoinLines(lines, eol)
    IN  IF open /\ lines # <<>> THEN SubSeq(t, 1, Len(t) - Len(eol)) ELSE t

SeqsUpTo(S, n) == UNION {[1..m -> S] : m \in 0..n}

SSEBodies ==
    { [bytes |-> Encode(TextOf(ls, eol, open)), sent |-> <<>>] :
        ls \in SeqsUpTo(SSELines, MaxLines), eol \in EOLs, open \in BOOLEAN }

StreamInit(ops, bodies, readers) ==
    /\ op \in ops
    /\ \E b \in bodies : body = b.bytes /\ sent = b.sent
    /\ req = NoCall
    /\ res = NoResult
    /\ pos = 0
    /\ dec = <<>>
    /\ buf = <<>>
    /\ dataBuf = <<>>
    /\ pc = "start"
    /\ out = <<>>
    /\ st = "Open"
    /\ err = NoErr
    /\ last = NoFrame
    /\ late = 0
    /\ splitChar = FALSE
    /\ timer = "none"
    /\ env = NoEnv /\ client = NoClient /\ io = <<>> /\ other = <<>> /\ reader \in readers

InitSSE == StreamInit({"frames"}, SSEBodies, {NoReader})

NextSSE ==
    \/ Start
    \/ Pull
    \/ PullTail
    \/ \E n \in 1..Len(body) : Chunk(n)
    \/ EndOfInput
    \/ LatePull

SpecSSE == InitSSE /\ [][NextSSE]_vars

\* bodies whose events hold comment lines and lines of another field between
\* their data lines: every sequence of up to MaxLines of these lines, then
\* the blank line that ends the last event, or the last line left unended
FieldBodies ==
    LET FieldLines == { <<>>,
                        <<":", "k">>,
                        <<"i", "d", ":", "1">>,
                        DataPrefix \o <<"{">>,
                        DataPrefix \o <<"}">>,
                        DataPrefix \o <<"{", "}">> }
    IN  { [bytes |-> Encode(TextOf(ls, <<LF>>, open) \o (IF ended THEN <<LF>> ELSE <<>>)),
           sent |-> <<>>] :
            ls \in SeqsUpTo(FieldLines, MaxLines), open \in BOOLEAN, ended \in BOOLEAN }

SpecFields == StreamInit({"frames"}, FieldBodies, {NoReader}) /\ [][NextSSE]_vars

----------------------------------------------------------------------------
(* Streaming calls: streamAnswer and crawlStream on a 2xx response *)

\* the payloads of the events a stream body is made of
EventPayloads ==
    { <<"{", "\"type\":", "\"answer\"", "}">>,
      <<"{", "\"type\":", "\"error\"", ",", "\"error\":", "\"missing_query\"", "}">>,
      <<"{", "\"error\":", "\"boom\"", "}">>,
      <<"{", "\"error\":", "true", "}">>,
      <<"{", "\"error_type\":", "\"rate_limit\"", ",", "\"error\":", "\"boom\"", "}">>,
      <<"{", "\"detail\":", "{", "\"error_type\":", "\"rate_limit\"", ",",
        "\"message\":", "\"slow down\"", "}", "}">> }

\* how a body ends: after the blank line of its last event, after the
\* newline of the last data line, or inside the last data line
Endings == {"blank line", "newline", "no newline"}

\* one event per payload, each a data line and a blank line, the last event
\* cut short as the ending says
RECURSIVE EventsText(_, _)
EventsText(ps, ending) ==
    IF ps = <<>> THEN <<>>
    ELSE DataPrefix \o <<SP>> \o Head(ps)
         \o (IF Len(ps) > 1 \/ ending = "blank line" THEN <<LF, LF>>
             ELSE IF ending = "newline" THEN <<LF>> ELSE <<>>)
         \o EventsText(Tail(ps), ending)

StreamBodies ==
    { [bytes |-> Encode(EventsText(ps, ending)),
       sent |-> [i \in 1..Len(ps) |-> JSONParse(ps[i]).val]] :
        ps \in SeqsUpTo(EventPayloads, MaxEvents), ending \in Endings }

Init == StreamInit({"streamAnswer", "crawlStream"}, StreamBodies, {NoReader})

Next ==
    \/ Start
    \/ Pull
    \/ PullTail
    \/ \E n \in 1..Len(body) : Chunk(n)
    \/ EndOfInput
    \/ LatePull

Spec == Init /\ [][Next]_vars

----------------------------------------------------------------------------
(* Streaming calls on bodies that hold the completion frame *)

DonePayloads ==
    { <<"{", "\"type\":", "\"answer\"", "}">>,
      <<"{", "\"type\":", "\"done\"", "}">>,
      <<"{", "\"error\":", "\"boom\"", "}">> }

DoneBodies ==
    { [bytes |-> Encode(EventsText(ps, ending)),
       sent |-> [i \in 1..Len(ps) |-> JSONParse(ps[i]).val]] :
        ps \in SeqsUpTo(DonePayloads, MaxEvents), ending \in Endings }

InitDone == StreamInit({"streamAnswer", "crawlStream"}, DoneBodies, {NoReader})

SpecDone == InitDone /\ [][Next]_vars

----------------------------------------------------------------------------
(* Streaming calls under their timeout signal *)

\* the first pull: the call makes its timeout signal, of this.timeout
\* milliseconds, and starts the fetch
Request ==
    /\ pc = "start"
    /\ pc' = "fetch"
    /\ timer' = "running"
    /\ io' = Append(io, [what |-> "deadline", ms |-> client.timeout])
    /\ UNCHANGED <<reader, other, env, client, op, body, pos, dec, buf, dataBuf, out, st, err, last, late, splitChar, sent, req, res>>

\* the fetch resolves with a 2xx response; the decoder asks for a chunk
Respond ==
    /\ pc = "fetch"
    /\ timer = "running"
    /\ pc' = "await"
    /\ reader' = read(reader, TRUE)
    /\ UNCHANGED <<other, env, client, io, op, body, pos, dec, buf, dataBuf, out, st, err, last, late, splitChar, sent, req, res, timer>>

\* The consumer holds a frame and the transport has handed over the whole
\* body, so it may have closed it (a read that is pending shows it has not).
BodyMayBeClosed == pc = "yieldTail" \/ (pc = "yieldLoop" /\ pos = Len(body))

\* The signal fires while the call is suspended. It aborts the fetch and
\* makes the body unreadable, unless the transport had closed the body
\* already: nothing in the client itself looks at the signal.
Expire ==
    /\ timer = "running"
    /\ pc \in {"fetch", "await", "yieldLoop", "yieldTail"}
    /\ \/ pc # "yieldTail" /\ timer' = "expired"
       \/ BodyMayBeClosed /\ timer' = "expired late"
    /\ UNCHANGED <<reader, other, env, client, io, streamVars, req, res>>

\* the pending fetch or read rejects with the abort reason, which nothing catches
Rejected ==
    /\ timer = "expired"
    /\ pc \in {"fetch", "await"}
    /\ st' = "Errored"
    /\ err' = MkError(Foreign, NoMessage, 0)
    /\ pc' = "closed"
    /\ reader' = IF pc = "await" THEN Finally(reader, "rejected") ELSE reader
    /\ UNCHANGED <<other, env, client, io, op, body, pos, dec, buf, dataBuf, out, last, late, splitChar, sent, req, res, timer>>

NextDeadline ==
    \/ Request
    \/ Respond
    \/ Pull
    \/ PullTail
    \/ \E n \in 1..Len(body) : Chunk(n)
    \/ EndOfInput
    \/ LatePull
    \/ Expire
    \/ Rejected

\* a promise that rejected is always delivered to the code awaiting it
SpecDeadline == InitDone /\ [][NextDeadline]_vars /\ WF_vars(Rejected)

----------------------------------------------------------------------------
(* Streaming calls on a body read through a reader of toAsyncIterable *)

\* The call stops without its decoder running on: the consumer leaves its
\* loop and return() closes the generators at their yields, or a read on the
\* body rejects and nothing catches it.
Stop(why) ==
    /\ \/ /\ why = "return"
          /\ pc \in {"start", "yieldLoop", "yieldTail"}
          /\ UNCHANGED <<st, err>>
       \/ /\ why = "read failure"
          /\ pc = "await"
          /\ st' = "Errored"
          /\ err' = MkError(Foreign, NoMessage, 0)
    /\ pc' = "closed"
    /\ reader' = IF pc \in {"await", "yieldLoop"} THEN Finally(reader, why) ELSE reader
    /\ UNCHANGED <<other, env, client, io, op, body, pos, dec, buf, dataBuf, out, last, late, splitChar, sent, req, res, timer>>

\* the body has getReader and no Symbol.asyncIterator (lines 152-155)
SpecReader ==
    /\ StreamInit({"streamAnswer", "crawlStream"}, DoneBodies, {[NoReader EXCEPT !.own = TRUE]})
    /\ [][NextDeadline \/ \E why \in {"return", "read failure"} : Stop(why)]_vars

----------------------------------------------------------------------------
(* The decoder on bodies made of whole events *)

\* the events a body is made of: the lines of each before its blank line,
\* and the frame the event stands for (NoFrame: none)
EventGroups ==
    { [kind |-> "single", frame |-> Obj(<<>>),
       lines |-> <<DataPrefix \o <<SP, "{", "}">>>>],
      [kind |-> "multi", frame |-> Obj([x \in {"type"} |-> Str(<<"answer">>)]),
       lines |-> <<DataPrefix \o <<"{", "\"type\":">>, DataPrefix \o <<"\"answer\"", "}">>>>],
      [kind |-> "multi", frame |-> Str(<<"a", "b">>),
       lines |-> <<DataPrefix \o <<QUOTE, "a">>, DataPrefix \o <<"b", QUOTE>>>>],
      [kind |-> "malformed", frame |-> NoFrame,
       lines |-> <<DataPrefix \o <<SP, "[DONE]">>>>],
      [kind |-> "malformed", frame |-> NoFrame,
       lines |-> <<DataPrefix \o <<"[DONE]">>, DataPrefix \o <<"{", "}">>>>],
      [kind |-> "empty", frame |-> NoFrame,
       lines |-> <<DataPrefix \o <<SP>>>>],
      [kind |-> "no data", frame |-> NoFrame,
       lines |-> <<<<":", "k">>>>] }

\* the groups one after the other, each closed by its blank line, the last
\* one cut short as the ending says
RECURSIVE GroupsText(_, _)
GroupsText(gs, ending) ==
    IF gs = <<>> THEN <<>>
    ELSE IF Len(gs) > 1 \/ ending = "blank line"
    THEN JoinLines(Head(gs).lines, <<LF>>) \o <<LF>> \o GroupsText(Tail(gs), ending)
    ELSE TextOf(Head(gs).lines, <<LF>>, ending = "no newline")

GroupBodies ==
    { [bytes |-> Encode(GroupsText(gs, ending)),
       sent |-> [i \in 1..Len(gs) |-> [kind |-> gs[i].kind, frame |-> gs[i].frame]]] :
        gs \in SeqsUpTo(EventGroups, MaxGroups), ending \in Endings }

InitGroups == StreamInit({"frames"}, GroupBodies, {NoReader})

SpecGroups == InitGroups /\ [][NextSSE]_vars

----------------------------------------------------------------------------
(* Classifier calls: buildErr, raiseHttp and a blocking call on one response *)

Statuses == {0, 200, 400, 401, 403, 404, 429, 500, 503}

TagValues ==
    {Undefined, Str(<<>>), Str(<<"unknown_error">>), Str(<<"constructor">>)}
        \cup {Str(<<t>>) : t \in {"validation_error", "authentication_error", "provider_error",
                                  "rate_limit", "internal_error", "scraping_error",
                                  "search_error", "map_error", "crawl_stream_error"}}

\* the object with the given fields, Undefined standing for an absent field
Fields(et, ty, msg, er, det) ==
    LET f == [x \in {"error_type", "type", "message", "error", "detail"} |->
                CASE x = "error_type" -> et
                  [] x = "type" -> ty
                  [] x = "message" -> msg
                  [] x = "error" -> er
                  [] x = "detail" -> det]
    IN  Obj([x \in {y \in DOMAIN f : f[y].k # "undefined"} |-> f[x]])

FlatPayloads ==
    { Fields(et, ty, msg, er, Undefined) :
        et \in TagValues,
        ty \in {Undefined, Str(<<"error">>), Str(<<"rate_limit">>)},
        msg \in {Undefined, Str(<<"slow down">>), Str(<<>>)},
        er \in {Undefined, Str(<<"boom">>)} }

Payloads ==
    FlatPayloads
        \cup {Fields(Undefined, Undefined, Undefined, Undefined, p) : p \in FlatPayloads}
        \cup {Fields(Str(<<"provider_error">>), Undefined, Str(<<"outer">>), Undefined, p) :
                 p \in FlatPayloads}
        \cup {[p EXCEPT !.v = [x \in DOMAIN p.v \cup {"detail"} |->
                                 IF x = "detail" THEN Str(<<"bad gateway">>) ELSE p.v[x]]] :
                 p \in FlatPayloads}
        \cup {JNull, NoJSON}

InitErr ==
    /\ op = "classify"
    /\ body = <<>> /\ sent = <<>>
    /\ pos = 0 /\ dec = <<>> /\ buf = <<>> /\ dataBuf = <<>>
    /\ pc = "none" /\ out = <<>> /\ st = "Open" /\ err = NoErr /\ last = NoFrame
    /\ late = 0 /\ splitChar = FALSE /\ timer = "none"
    /\ env = NoEnv /\ client = NoClient /\ io = <<>> /\ other = <<>> /\ reader = NoReader
    /\ req \in [status : Statuses, payload : Payloads, rid : BOOLEAN]
    /\ res = NoResult

\* buildErr(payload, status) on a decoded payload
CallBuildErr ==
    /\ res.outcome = "pending"
    /\ req.payload # NoJSON
    /\ res' = Result("buildErr", "raised", buildErr(req.payload, req.status), NoFrame)
    /\ UNCHANGED <<reader, other, env, client, io, streamVars, req, timer>>

\* raiseHttp(res) on a response that is not ok
CallRaiseHttp ==
    /\ res.outcome = "pending"
    /\ req.status # 0 /\ ~Ok(req.status)
    /\ res' = [Result("raiseHttp", "raised", raiseHttp(req.status, req.payload, req.rid), NoFrame)
                 EXCEPT !.via = "raiseHttp"]
    /\ UNCHANGED <<reader, other, env, client, io, streamVars, req, timer>>

\* a blocking call whose fetch resolved with this response
CallAnswer ==
    /\ res.outcome = "pending"
    /\ req.status # 0
    /\ res' = answer(req.status, req.payload, req.rid)
    /\ UNCHANGED <<reader, other, env, client, io, streamVars, req, timer>>

NextErr ==
    \/ CallBuildErr
    \/ CallRaiseHttp
    \/ CallAnswer

SpecErr == InitErr /\ [][NextErr]_vars

----------------------------------------------------------------------------
(* Request keys: toSnakeCase *)

\* /[A-Z]/
IsCapital(c) == c \in {"T"}

RECURSIVE ReplaceCapitals(_)
\* str.replace(/[A-Z]/g, (m) => `_${m.toLowerCase()}`)
ReplaceCapitals(str) ==
    IF str = <<>> THEN <<>>
    ELSE (IF IsCapital(Head(str)) THEN <<"_", LowerChar(Head(str))>> ELSE <<Head(str)>>)
             \o ReplaceCapitals(Tail(str))

RECURSIVE toSnakeKeepCase(_)
\* an underscore before every capital, the capital kept
toSnakeKeepCase(str) ==
    IF str = <<>> THEN <<>>
    ELSE (IF IsCapital(Head(str)) THEN <<"_", Head(str)>> ELSE <<Head(str)>>)
             \o toSnakeKeepCase(Tail(str))

toSnakeCase(str) ==
    IF \E i \in 1..Len(str) : IsCapital(str[i]) THEN ReplaceCapitals(str) ELSE str

\* keys of lower-case letters, capitals, underscores and digits
Keys == UNION {[1..n -> {"a", "T", "_", "1"}] : n \in 0..MaxKeyLen}

InitKeys ==
    /\ op = "toSnakeCase"
    /\ body = <<>> /\ sent = <<>>
    /\ pos = 0 /\ dec = <<>> /\ buf = <<>> /\ dataBuf = <<>>
    /\ pc = "none" /\ out = <<>> /\ st = "Open" /\ err = NoErr /\ last = NoFrame
    /\ late = 0 /\ splitChar = FALSE /\ timer = "none"
    /\ env = NoEnv /\ client = NoClient /\ io = <<>> /\ other = <<>> /\ reader = NoReader
    /\ req \in [key : Keys]
    /\ res = [key |-> <<>>, times |-> 0]

\* the key of a request parameter goes through toSnakeCase
ConvertKey ==
    /\ res.times = 0
    /\ res' = [key |-> toSnakeCase(req.key), times |-> 1]
    /\ UNCHANGED <<reader, other, env, client, io, streamVars, req, timer>>

\* a key that toSnakeCase returned goes through it again
ConvertKeyAgain ==
    /\ res.times = 1
    /\ res' = [key |-> toSnakeCase(res.key), times |-> 2]
    /\ UNCHANGED <<reader, other, env, client, io, streamVars, req, timer>>

NextKeys ==
    \/ ConvertKey
    \/ ConvertKeyAgain

SpecKeys == InitKeys /\ [][NextKeys]_vars

----------------------------------------------------------------------------
(* Calls on a client: the constructor, getFetch, the request and its outcome *)

\* reading process.env where there is no process global throws
NoProcess == [k |-> "ReferenceError", v |-> <<>>]

AnswerTypeKey == <<"answer", "_", "t", "y", "p", "e">>
AnswerTypeCamel == <<"answer", "T", "y", "p", "e">>

\* obj[key] on an object literal given as its entries in insertion order
Prop(obj, key) ==
    IF \E i \in 1..Len(obj) : obj[i].key = key
    THEN obj[CHOOSE i \in 1..Len(obj) : obj[i].key = key].value
    ELSE Undefined

\* the entries of the resulting object: a later entry overwrites an earlier
\* one of the same converted key
convertKeysToSnakeCase(obj) ==
    LET kept == {i \in 1..Len(obj) : obj[i].value # Undefined}
        lastOf(k) == CHOOSE i \in kept :
                        /\ toSnakeCase(obj[i].key) = k
                        /\ \A j \in kept : toSnakeCase(obj[j].key) = k => j <= i
    IN  [k \in {toSnakeCase(obj[i].key) : i \in kept} |-> obj[lastOf(k)].value]

buildSearchRequestBody(params) ==
    LET b == convertKeysToSnakeCase(params)
    IN  [k \in DOMAIN b |->
            IF k = AnswerTypeKey /\ IsString(b[k]) THEN ToLowerCase(b[k]) ELSE b[k]]

\* the answer_type field of the serialized body, Undefined when it has none
WireAnswerType(o, params) ==
    LET b == buildSearchRequestBody(params)
    IN  IF o \in {"answer", "streamAnswer"} /\ AnswerTypeKey \in DOMAIN b
        THEN b[AnswerTypeKey] ELSE Undefined

\* streamAnswer, lines 266-267
StructuredRequested(params) ==
    LET at == Coalesce(Prop(params, AnswerTypeKey), Prop(params, AnswerTypeCamel))
    IN  IsString(at) /\ ToLowerCase(at) = Str(<<"json">>)

\* a resolver that hands out undici without having loaded it
getFetchUnchecked(e) == IF e.globalFetch THEN "global" ELSE "undici"

\* "none": import('undici') rejects
getFetch(e) ==
    IF e.globalFetch THEN "global" ELSE IF e.undici THEN "undici" ELSE "none"

\* a call that starts over after a 5xx response
RetryOn5xx(r) ==
    IF r.outcome = "raised" /\ r.err.status >= 500 THEN "fetch" ELSE "over"

\* where a call goes once its response is settled: it is over
AfterResponse(r) == "over"

Streaming(o) == o \in {"streamAnswer", "crawlStream"}

\* the entries of io: [what, call, at], at being the answer_type of the
\* body of a request
Events(what) == SelectSeq(io, LAMBDA e : e.what = what)
Calls == Len(Events("call"))

\* request parameters: none, one spelling of the answer type, or both in
\* either order
ParamSets ==
    LET values == {Undefined, JNull, Str(<<"json">>), Str(<<"JSON">>), Str(<<"markdown">>)}
    IN  {<<>>}
            \cup {<<[key |-> k, value |-> v]>> :
                     k \in {AnswerTypeKey, AnswerTypeCamel}, v \in values}
            \cup {<<[key |-> k[1], value |-> v1], [key |-> k[2], value |-> v2]>> :
                     k \in {<<AnswerTypeKey, AnswerTypeCamel>>,
                            <<AnswerTypeCamel, AnswerTypeKey>>},
                     v1 \in values, v2 \in values}

\* hasBody: res.body is not null
Responses ==
    [status : {200, 503},
     payload : {Fields(Undefined, Undefined, Undefined, Undefined, Undefined),
                Fields(Undefined, Undefined, Undefined, Str(<<"boom">>), Undefined),
                Fields(Str(<<"constructor">>), Undefined, Undefined, Undefined, Undefined),
                NoJSON},
     rid : {FALSE},
     hasBody : BOOLEAN]

\* a browser has fetch and no process global
Envs ==
    {e \in [key : {NoProcess, Undefined, Str(<<"key">>)},
            globalFetch : BOOLEAN, undici : BOOLEAN] :
        e.key = NoProcess => e.globalFetch}

\* the arguments of the call and, once it has come, the response to it
NoRequest ==
    [params |-> <<>>, status |-> 0, payload |-> NoJSON, rid |-> FALSE, hasBody |-> FALSE]

InitCall ==
    /\ op = "none"
    /\ body = <<>> /\ sent = <<>>
    /\ pos = 0 /\ dec = <<>> /\ buf = <<>> /\ dataBuf = <<>>
    /\ pc = "new" /\ out = <<>> /\ st = "Open" /\ err = NoErr /\ last = NoFrame
    /\ late = 0 /\ splitChar = FALSE /\ timer = "none"
    /\ env \in Envs
    /\ client = NoClient
    /\ io = <<>>
    /\ other = <<>>
    /\ reader = NoReader
    /\ req = NoRequest
    /\ res = NoResult

\* new LLMLayerClient({ apiKey })
Construct(apiKey) ==
    /\ pc = "new"
    /\ op' = "constructor"
    /\ req' = [NoRequest EXCEPT !.params = <<[key |-> <<"apiKey">>, value |-> apiKey]>>]
    /\ IF ~Nullish(apiKey)
       THEN /\ client' = [state |-> "ready", apiKey |-> apiKey, timeout |-> DefaultTimeoutMs]
            /\ res' = Result("constructor", "returned", NoErr, NoFrame)
            /\ pc' = "idle"
       ELSE IF env.key = NoProcess
       THEN /\ res' = Result("constructor", "raised", MkError(Foreign, NoMessage, 0), NoFrame)
            /\ pc' = "none"
            /\ UNCHANGED client
       ELSE IF ~Nullish(env.key)
       THEN /\ client' = [state |-> "ready", apiKey |-> env.key, timeout |-> DefaultTimeoutMs]
            /\ res' = Result("constructor", "returned", NoErr, NoFrame)
            /\ pc' = "idle"
       ELSE /\ res' = Result("constructor", "raised",
                             MkError("AuthenticationError",
                                     Str(<<"LLMLAYER_API_KEY missing (set env var or pass option)">>),
                                     0),
                             NoFrame)
            /\ pc' = "none"
            /\ UNCHANGED client
    /\ UNCHANGED <<reader, other, body, pos, dec, buf, dataBuf, out, st, err, last, late, splitChar, sent,
                   timer, env, io>>

\* an operation is called on the client; the body of a streaming operation
\* does not run before the first pull
Call(o, params) ==
    /\ pc = "idle"
    /\ client.state = "ready"
    /\ Calls < MaxCalls
    /\ op' = o
    /\ req' = [NoRequest EXCEPT !.params = params]
    /\ res' = NoResult
    /\ io' = Append(io, [what |-> "call", call |-> Calls + 1, at |-> Undefined])
    /\ pc' = IF Streaming(o) THEN "created" ELSE "getFetch"
    /\ UNCHANGED <<reader, other, body, pos, dec, buf, dataBuf, out, st, err, last, late, splitChar, sent,
                   timer, env, client>>

\* the first pull of a streaming operation, up to await getFetch()
FirstPull ==
    /\ pc = "created"
    /\ IF op = "streamAnswer" /\ StructuredRequested(req.params)
       THEN /\ res' = Result(op, "raised",
                             MkError("InvalidRequest",
                                     Str(<<"Streaming does not support structured JSON output">>),
                                     0),
                             NoFrame)
            /\ pc' = "over"
       ELSE /\ pc' = "getFetch"
            /\ UNCHANGED res
    /\ UNCHANGED <<reader, other, op, body, pos, dec, buf, dataBuf, out, st, err, last, late, splitChar, sent,
                   req, timer, env, client, io>>

\* await getFetch()
GetFetch ==
    /\ pc = "getFetch"
    /\ IF getFetch(env) = "none"
       THEN /\ res' = Result("getFetch", "raised", MkError(Foreign, NoMessage, 0), NoFrame)
            /\ pc' = "over"
            /\ UNCHANGED io
       ELSE /\ io' = Append(io, [what |-> "resolve", call |-> Calls, at |-> Undefined])
            /\ pc' = "fetch"
            /\ UNCHANGED res
    /\ UNCHANGED <<reader, other, op, body, pos, dec, buf, dataBuf, out, st, err, last, late, splitChar, sent,
                   req, timer, env, client>>

\* fetch(url, { method: 'POST', headers, body, signal }): the request goes out
Fetch ==
    /\ pc = "fetch"
    /\ io' = Append(io, [what |-> "request", call |-> Calls, at |-> WireAnswerType(op, req.params)])
    /\ pc' = "sent"
    /\ UNCHANGED <<reader, other, op, body, pos, dec, buf, dataBuf, out, st, err, last, late, splitChar, sent,
                   req, res, timer, env, client>>

\* what the operation makes of the response: a streaming operation on a 2xx
\* response goes on to read the body
Outcome(o, r) ==
    IF ~Streaming(o) THEN [answer(r.status, r.payload, r.rid) EXCEPT !.via = o]
    ELSE IF ~Ok(r.status) THEN Result(o, "raised", raiseHttp(r.status, r.payload, r.rid), NoFrame)
    ELSE IF ~r.hasBody
    THEN Result(o, "raised", MkError("LLMLayerError", Str(<<"No response body">>), 0), NoFrame)
    ELSE Result(o, "streaming", NoErr, NoFrame)

\* the fetch resolves with the response
Settle(response) ==
    /\ pc = "sent"
    /\ req' = [req EXCEPT !.status = response.status, !.payload = response.payload,
                          !.rid = response.rid, !.hasBody = response.hasBody]
    /\ res' = Outcome(op, response)
    /\ pc' = AfterResponse(Outcome(op, response))
    /\ UNCHANGED <<reader, other, op, body, pos, dec, buf, dataBuf, out, st, err, last, late, splitChar, sent,
                   timer, env, client, io>>

\* the fetch rejects: no connection, or the timeout signal fired
FetchRejects ==
    /\ pc = "sent"
    /\ res' = Result(op, "raised", MkError(Foreign, NoMessage, 0), NoFrame)
    /\ pc' = "over"
    /\ UNCHANGED <<reader, other, op, body, pos, dec, buf, dataBuf, out, st, err, last, late, splitChar, sent,
                   req, timer, env, client, io>>

\* the call is over for the caller: its arguments and its outcome are gone
Return ==
    /\ pc = "over"
    /\ pc' = "idle"
    /\ op' = "none"
    /\ req' = NoRequest
    /\ res' = NoResult
    /\ UNCHANGED <<reader, other, body, pos, dec, buf, dataBuf, out, st, err, last, late, splitChar, sent,
                   timer, env, client, io>>

NextCall ==
    \/ \E k \in {Undefined, Str(<<"key">>)} : Construct(k)
    \/ \E o \in {"answer", "streamAnswer"}, ps \in ParamSets : Call(o, ps)
    \/ Call("crawlStream", <<>>)
    \/ FirstPull
    \/ GetFetch
    \/ Fetch
    \/ \E r \in Responses : Settle(r)
    \/ FetchRejects
    \/ Return

SpecCall == InitCall /\ [][NextCall]_vars

----------------------------------------------------------------------------
(* Two streaming calls running concurrently on one client *)

\* one event each: a string with a two-byte character, an answer frame, an
\* error frame, and an answer frame that the body's end cuts short
PairBodies ==
    { Encode(EventsText(<<p>>, "blank line")) :
        p \in { <<QUOTE, EAcute, QUOTE>>,
                <<"{", "\"type\":", "\"answer\"", "}">>,
                <<"{", "\"error\":", "\"boom\"", "}">> } }
        \cup { Encode(EventsText(<<<<"{", "\"type\":", "\"answer\"", "}">>>>, "no newline")) }

\* the locals of a call: its arguments, its position in the body handed to
\* it, the decoder, buf and dataBuf of its iterateSSEDataFrames, and the
\* timeout signal it handed to fetch
Context(o, b) ==
    [op |-> o, body |-> b, pos |-> 0, dec |-> <<>>, buf |-> <<>>, dataBuf |-> <<>>,
     pc |-> "start", out |-> <<>>, st |-> "Open", err |-> NoErr, last |-> NoFrame, late |-> 0,
     timer |-> "none"]

\* one TextDecoder for all calls: the resumed call finds the decoder as the
\* other call left it
SharedDecoder(own, left) == left

\* const decoder = new TextDecoder() in each iterateSSEDataFrames: the resumed
\* call finds its decoder as it left it
OwnDecoder(own, left) == own

\* one timeout signal for all calls: the resumed call finds the signal as
\* the other call left it
SharedTimer(own, left) == left

\* timeoutSignal(this.timeout) in each call: the resumed call finds its signal
\* as it left it
OwnTimer(own, left) == own

InitPair ==
    /\ \E o1 \in {"streamAnswer", "crawlStream"}, b1 \in PairBodies, b2 \in PairBodies :
          /\ op = o1 /\ body = b1
          /\ other = Context("streamAnswer", b2)
    /\ pos = 0 /\ dec = <<>> /\ buf = <<>> /\ dataBuf = <<>>
    /\ pc = "start" /\ out = <<>> /\ st = "Open" /\ err = NoErr /\ last = NoFrame
    /\ late = 0 /\ splitChar = FALSE /\ sent = <<>> /\ timer = "none"
    /\ req = NoCall /\ res = NoResult
    /\ env = NoEnv /\ io = <<>> /\ reader = NoReader
    /\ client \in { [state |-> "ready", apiKey |-> Str(<<"key">>), timeout |-> ms] :
                       ms \in {DefaultTimeoutMs, 5} }

\* the running call is suspended at one of its awaits or yields and the
\* other call goes on from where it was
Switch ==
    /\ other' = [op |-> op, body |-> body, pos |-> pos, dec |-> dec, buf |-> buf,
                 dataBuf |-> dataBuf, pc |-> pc, out |-> out, st |-> st, err |-> err,
                 last |-> last, late |-> late, timer |-> timer]
    /\ op' = other.op /\ body' = other.body /\ pos' = other.pos
    /\ dec' = OwnDecoder(other.dec, dec)
    /\ buf' = other.buf /\ dataBuf' = other.dataBuf /\ pc' = other.pc
    /\ out' = other.out /\ st' = other.st /\ err' = other.err
    /\ last' = other.last /\ late' = other.late
    /\ timer' = OwnTimer(other.timer, timer)
    /\ UNCHANGED <<reader, splitChar, sent, req, res, env, client, io>>

NextPair ==
    \/ Switch
    \/ Start
    \/ Pull
    \/ PullTail
    \/ \E n \in 1..Len(body) : Chunk(n)
    \/ EndOfInput
    \/ LatePull

SpecPair == InitPair /\ [][NextPair]_vars

\* two calls on one client, each under the timeout signal it made
SpecTimers == InitPair /\ [][Switch \/ NextDeadline]_vars

----------------------------------------------------------------------------
(* The decoder's claims *)

\* every frame the while loop yields from text b, then the trailing flush
RECURSIVE FramesFrom(_, _)
FramesFrom(b, db) ==
    LET r == Drain(b, db)
    IN  IF r.yielded THEN <<r.frame>> \o FramesFrom(r.buf, r.dataBuf)
        ELSE LET t == TailFlush(r.buf, r.dataBuf)
             IN  IF t.yielded THEN <<t.frame>> ELSE <<>>

\* the frames of a body that arrives as one single chunk
FramesOfWhole(bytes) == FramesFrom(Decode(<<>>, bytes).text, <<>>)

\* C1: chunk-boundary independence. However the transport split the body
\* into chunks, once the input has ended the frames yielded by
\* iterateSSEDataFrames are those of the same bytes delivered as one chunk.
C1_ChunkIndependence ==
    (op = "frames" /\ st = "Ended") => out = FramesOfWhole(body)

\* C1 witness: a body was consumed in chunks one of which ended inside the
\* two-byte character, and the frame holding that character was yielded
C1_Witness ==
    /\ op = "frames" /\ st = "Ended" /\ splitChar
    /\ \E i \in 1..Len(out) : out[i] = Str(<<EAcute>>)

\* the text t without its comment lines and its lines of a field other than
\* data, each removed with its line ending
RECURSIVE ClaimWithoutIgnored(_)
ClaimWithoutIgnored(t) ==
    LET idx == IndexOfLF(t)
        line == StripCR(IF idx = 0 THEN t ELSE SubSeq(t, 1, idx - 1))
        ignored == line # <<>> /\ ~StartsWith(line, DataPrefix)
        kept == IF ignored THEN <<>> ELSE IF idx = 0 THEN t ELSE SubSeq(t, 1, idx)
    IN  IF t = <<>> THEN <<>>
        ELSE IF idx = 0 THEN kept
        ELSE kept \o ClaimWithoutIgnored(SubSeq(t, idx + 1, Len(t)))

\* the number of lines of the text t that are ended by a line feed
ClaimLineFeeds(t) == Cardinality({i \in 1..Len(t) : t[i] = LF})

\* C33: ignored lines. A comment line (one starting with ':') and a line
\* whose field name is not data contribute nothing: once the input has ended,
\* the frames yielded are those of the same body with every such line
\* removed, so such a line neither ends nor splits the event around it.
C33_IgnoredLines ==
    (op = "frames" /\ st = "Ended")
        => out = FramesFrom(ClaimWithoutIgnored(Decode(<<>>, body).text), <<>>)

\* C33 witness: an event whose two data lines have a line of another field
\* between them was yielded as one frame
C33_Witness ==
    /\ op = "frames" /\ st = "Ended"
    /\ LET t == Decode(<<>>, body).text
           u == ClaimWithoutIgnored(t)
       IN  /\ ClaimLineFeeds(t) = 4 /\ ClaimLineFeeds(u) = 3
           /\ StartsWith(t, DataPrefix \o <<"{", LF, "i", "d">>)
    /\ out = <<Obj(<<>>)>>

\* C38: reader release. On a body that toAsyncIterable reads through a
\* reader of its own, the reader is never released twice and never read
\* after its release, and once consumption has stopped (the body was
\* exhausted, a frame made the consumer throw, a read rejected, the deadline
\* aborted the body, or the consumer left its loop) it has been released
\* exactly once.
C38_ReaderReleasedOnce ==
    reader.got =>
        /\ reader.releases <= 1
        /\ ~reader.stray
        /\ pc \in {"closed", "returned"} => reader.releases = 1

\* C38 witness: the consumer left its loop after the first frame, with bytes
\* of the body still unread, and the reader was released
C38_Witness ==
    /\ reader.got /\ reader.releases = 1
    /\ pc = "closed" /\ st = "Open"
    /\ Len(out) = 1 /\ pos < Len(body)

\* the data fragments of the event still open when the input ended: those in
\* the accumulator, then that of an unterminated last data line
OpenFragments ==
    dataBuf \o (IF StartsWith(buf, DataPrefix) THEN <<Slice(buf, 5)>> ELSE <<>>)

\* C2: trailing event flush. When the input ends with data fragments of an
\* unterminated event, the frame parsed from all of them is yielded (as the
\* last frame) whenever their concatenation is valid JSON.
C2_TrailingFlush ==
    (op = "frames" /\ st = "Ended" /\ OpenFragments # <<>>
        /\ JSONParse(EventText(OpenFragments)).ok)
    => (out # <<>> /\ out[Len(out)] = JSONParse(EventText(OpenFragments)).val)

----------------------------------------------------------------------------
(* The claims' own vocabulary, written from the specification *)

\* the tag table of the specification
ClaimTagTable ==
    [tag \in {"validation_error", "authentication_error", "provider_error", "rate_limit",
              "internal_error", "scraping_error", "search_error", "map_error",
              "crawl_stream_error"} |->
        CASE tag = "validation_error" -> "InvalidRequest"
          [] tag = "authentication_error" -> "AuthenticationError"
          [] tag = "provider_error" -> "ProviderError"
          [] tag = "rate_limit" -> "RateLimitError"
          [] tag = "internal_error" -> "InternalServerError"
          [] tag = "scraping_error" -> "InternalServerError"
          [] tag = "search_error" -> "InternalServerError"
          [] tag = "map_error" -> "InternalServerError"
          [] tag = "crawl_stream_error" -> "InternalServerError"]

\* the status mapping of the specification
ClaimStatusKind(status) ==
    CASE status = 400 -> "InvalidRequest"
      [] status \in {401, 403} -> "AuthenticationError"
      [] status = 429 -> "RateLimitError"
      [] status >= 500 -> "InternalServerError"
      [] OTHER -> "LLMLayerError"

\* the object that is classified: the detail envelope when it is an object
ClaimUnwrap(p) == IF IsObject(p) /\ IsObject(Get(p, "detail")) THEN Get(p, "detail") ELSE p

\* the error-type tag of a payload: its error_type field, or its type field
\* when it has no error_type; a plain-text detail gives no structured type
ClaimTag(p) ==
    IF IsObject(p) /\ IsString(Get(p, "detail")) THEN Undefined
    ELSE IF IsObject(ClaimUnwrap(p)) /\ "error_type" \in DOMAIN ClaimUnwrap(p).v
    THEN Get(ClaimUnwrap(p), "error_type")
    ELSE Get(ClaimUnwrap(p), "type")

HasTableTag(p) ==
    LET t == ClaimTag(p)
    IN  IsString(t) /\ Len(t.v) = 1 /\ t.v[1] \in DOMAIN ClaimTagTable

TableKind(p) == ClaimTagTable[ClaimTag(p).v[1]]

\* an event that explicitly signals an error
SignalsError(v) ==
    LET d == ClaimUnwrap(v)
    IN  /\ IsObject(d)
        /\ \/ Get(d, "type") = Str(<<"error">>)
           \/ "error_type" \in DOMAIN d.v
           \/ "error" \in DOMAIN d.v

Terminated == pc \in {"closed", "returned"}

FirstError == CHOOSE i \in 1..Len(sent) :
                 SignalsError(sent[i]) /\ \A j \in 1..(i - 1) : ~SignalsError(sent[j])

MissingQueryFrame ==
    Obj([x \in {"type", "error"} |->
            IF x = "type" THEN Str(<<"error">>) ELSE Str(<<"missing_query">>)])

----------------------------------------------------------------------------
(* The decoder's claims on whole events *)

\* the frames the events stand for, in order
RECURSIVE FramesOf(_)
FramesOf(evs) ==
    IF evs = <<>> THEN <<>>
    ELSE (IF Head(evs).frame = NoFrame THEN <<>> ELSE <<Head(evs).frame>>)
         \o FramesOf(Tail(evs))

\* the body ends with the blank line of its last event
ClosedBody == body = <<>> \/ (Len(body) >= 2 /\ SubSeq(body, Len(body) - 1, Len(body)) = <<LF, LF>>)

\* the events of the body that are ended by a blank line
ClosedEvents == IF ClosedBody THEN sent ELSE SubSeq(sent, 1, Len(sent) - 1)

\* C17: frames correspond one-to-one to events. Once the input has ended,
\* the frames yielded are exactly those of the body's events that have a
\* parseable payload, one each and in the order of the events.
C17_OneFramePerEvent ==
    (op = "frames" /\ st = "Ended") => out = FramesOf(sent)

\* C18: multi-line payloads. The frame of an event whose payload came on
\* several data lines is the value of the fragments put together in order
\* with nothing between them.
C18_MultiLinePayload ==
    (op = "frames" /\ st = "Ended") =>
        \A i \in 1..Len(sent) :
            sent[i].kind = "multi" =>
                LET n == Len(FramesOf(SubSeq(sent, 1, i)))
                IN  Len(out) >= n /\ out[n] = sent[i].frame

\* C19: malformed events are dropped silently. In a body that holds an
\* event whose data is not valid JSON nothing is raised, the events ended
\* by a blank line give their frames as if that event were not there, and
\* the only frame there can be after these is that of a last, well-formed
\* event: none comes from a malformed event.
C19_MalformedDropped ==
    (op = "frames" /\ Terminated /\ \E i \in 1..Len(sent) : sent[i].kind = "malformed")
    => LET fs == FramesOf(ClosedEvents)
       IN  /\ st = "Ended" /\ err = NoErr
           /\ Len(out) >= Len(fs)
           /\ SubSeq(out, 1, Len(fs)) = fs
           /\ Len(out) > Len(fs) => out = FramesOf(sent)

----------------------------------------------------------------------------
(* The stream consumers' claims *)

\* C3: an error is terminal. Once streamAnswer or crawlStream has raised, no
\* step delivers another frame, pulls another chunk or decodes anything:
\* the stream stays Errored with the same error, whatever bytes remain.
C3_ErrorTerminal ==
    [][st = "Errored" =>
          /\ st' = "Errored" /\ err' = err /\ out' = out
          /\ pos' = pos /\ dec' = dec /\ buf' = buf /\ dataBuf' = dataBuf]_vars

\* C3 witness: the call raised with bytes left both in the body and in the
\* decoder's buffer, and the consumer pulled again
C3_Witness ==
    st = "Errored" /\ pos < Len(body) /\ buf # <<>> /\ late > 0

\* C4: no silent truncation. No event that signals an error is delivered as
\* an ordinary frame, and a stream whose body holds such an event terminates
\* by raising, after exactly the frames of the events before it.
C4_NoSilentTruncation ==
    /\ \A j \in 1..Len(out) : ~SignalsError(out[j])
    /\ (Terminated /\ \E i \in 1..Len(sent) : SignalsError(sent[i]))
        => (st = "Errored" /\ out = SubSeq(sent, 1, FirstError - 1))

\* C5: the event {"type":"error","error":"missing_query"} ends the stream at
\* once by raising InvalidRequest.
C5_MissingQueryInvalidRequest ==
    last = MissingQueryFrame =>
        (st = "Errored" /\ err.kind = "InvalidRequest" /\ pc = "closed")

\* C6: uniform classification. The frame that made a stream raise is an
\* error on every route, and of the same kind: as a frame of streamAnswer,
\* as a frame of crawlStream, and as the body of a blocking 2xx response.
C6_UniformClassification ==
    st = "Errored" =>
        LET a == streamAnswerFrame(last)
            c == crawlStreamFrame(last)
            b == answer(200, last, FALSE)
        IN  /\ a.raised /\ c.raised /\ b.outcome = "raised"
            /\ a.err.kind = c.err.kind
            /\ c.err.kind = b.err.kind

\* C7: the tag has priority in streams. A stream that raised on a frame whose
\* error_type tag is in the table raised the kind the table gives, also when
\* the frame carries a plain-text error field.
C7_TagBeforeBareString ==
    (st = "Errored" /\ HasTableTag(last)) => err.kind = TableKind(last)

\* the completion frame
DoneFrame == Obj([x \in {"type"} |-> Str(<<"done">>)])

\* C15: completion marker. A frame of type done is the last frame of its
\* stream: it is yielded, the stream is then Ended, and no frame is
\* delivered and no error raised after it.
C15_DoneEndsStream ==
    \A i \in 1..Len(out) :
        out[i] = DoneFrame => (i = Len(out) /\ st # "Errored")

\* C16: permissive end of input. A stream that terminated without a
\* completion frame and whose last decoded frame signalled no error ended
\* normally: it is Ended, with no error, however the body ended.
C16_PermissiveEnd ==
    (Terminated /\ ~SignalsError(last) /\ \A i \in 1..Len(out) : out[i] # DoneFrame)
        => (st = "Ended" /\ err = NoErr /\ pc = "returned")

\* C16 witness: a body without completion frame ended in the middle of an
\* event, after frames were delivered, and the stream ended normally
C16_Witness ==
    /\ pc = "returned" /\ st = "Ended" /\ err = NoErr
    /\ out # <<>> /\ \A i \in 1..Len(sent) : sent[i] # DoneFrame
    /\ Len(out) < Len(sent)
    /\ body[Len(body)] = LF /\ body[Len(body) - 1] # LF

\* C13: the deadline covers the whole operation. A call whose timeout
\* signal fired while it was suspended (waiting for the response, for a
\* chunk, or for the consumer's next pull) terminates by raising, never as
\* a stream that ended normally.
C13_DeadlineRaises ==
    (Terminated /\ timer \in {"expired", "expired late"}) => st = "Errored"

\* C13 amended: a timeout signal that fires before the transport has
\* finished aborts it. The call then never ends normally, and when it is
\* waiting for the response or for a chunk it ends by raising: it does not
\* stay blocked.
C13_DeadlineAbortsTransport ==
    /\ []((Terminated /\ timer = "expired") => st = "Errored")
    /\ ((timer = "expired" /\ pc \in {"fetch", "await"}) ~> st = "Errored")

\* C13 witness: the signal fired in the middle of the body, after frames
\* had been delivered, and the call raised
C13_Witness ==
    /\ timer = "expired" /\ st = "Errored" /\ err.kind = Foreign
    /\ out # <<>> /\ 0 < pos /\ pos < Len(body)

----------------------------------------------------------------------------
(* The classifier's claims *)

\* C8: the tag table. For a payload whose unwrapped error_type tag is in the
\* table, buildErr gives the kind of the table, whatever the status.
C8_TagTable ==
    (res.via = "buildErr" /\ HasTableTag(req.payload))
        => res.err.kind = TableKind(req.payload)

\* C8 witness: buildErr was given a tag and a status that map to different
\* kinds, and the tag won
C8_Witness ==
    /\ res.via = "buildErr" /\ req.status = 503
    /\ HasTableTag(req.payload) /\ ClaimTag(req.payload) = Str(<<"validation_error">>)
    /\ IsObject(Get(req.payload, "detail"))
    /\ res.err.kind = "InvalidRequest"

\* C11: envelope unwrapping. buildErr on a payload whose detail is an object
\* classifies that object: kind and message come from its fields and none
\* from the outer payload's. On a payload whose detail is plain text the
\* message is that text and the kind comes from the status alone.
C11_EnvelopeUnwrapping ==
    (res.via = "buildErr" /\ IsObject(req.payload)) =>
        LET d == Get(req.payload, "detail")
        IN  /\ IsObject(d) =>
                  /\ HasTableTag(req.payload) => res.err.kind = TableKind(req.payload)
                  /\ ~Truthy(ClaimTag(req.payload))
                        => res.err.kind = ClaimStatusKind(req.status)
                  /\ Truthy(Get(d, "message")) => res.err.message = Get(d, "message")
                  /\ (Get(d, "message") = Undefined /\ Truthy(Get(d, "error")))
                        => res.err.message = Get(d, "error")
                  /\ res.err.message # Get(req.payload, "message")
            /\ IsString(d) =>
                  /\ res.err.message = d
                  /\ res.err.kind = ClaimStatusKind(req.status)

\* C11 witness: buildErr classified {"detail":{"error_type":"rate_limit",
\* "message":"slow down"}} as a RateLimitError with the message "slow down"
C11_Witness ==
    /\ res.via = "buildErr"
    /\ req.payload = Fields(Undefined, Undefined, Undefined, Undefined,
                            Fields(Str(<<"rate_limit">>), Undefined, Str(<<"slow down">>),
                                   Undefined, Undefined))
    /\ res.err.kind = "RateLimitError"
    /\ res.err.message = Str(<<"slow down">>)

\* an error marker in a decoded body: a truthy error_type or error field at
\* top level or inside the detail object, or a plain-text detail
ClaimHasMarker(p) ==
    /\ IsObject(p)
    /\ \/ IsString(Get(p, "detail"))
       \/ Truthy(Get(p, "error_type")) \/ Truthy(Get(p, "error"))
       \/ Truthy(Get(ClaimUnwrap(p), "error_type")) \/ Truthy(Get(ClaimUnwrap(p), "error"))

\* C12: a blocking call never returns an error marker as success. A call
\* whose 2xx response body carries an error marker raises.
C12_NoMarkerAsSuccess ==
    (res.via = "answer" /\ Ok(req.status) /\ ClaimHasMarker(req.payload))
        => res.outcome = "raised"

\* C14: every failure is typed. Whatever a blocking call raises is one of the six
\* error kinds; a 2xx body that is not JSON is raised as the base
\* LLMLayerError and nothing of another type escapes.
C14_TypedFailures ==
    (res.via = "answer" /\ res.outcome = "raised") =>
        /\ res.err.kind \in ErrorKinds
        /\ (Ok(req.status) /\ req.payload = NoJSON) => res.err.kind = "LLMLayerError"

\* the message of the specification's preference order: a plain-text detail
\* is the message; otherwise the message field of the classified object when
\* it has one, else its error field, else the text made from the status
ClaimMessage(p, status) ==
    LET u == ClaimUnwrap(p)
    IN  IF IsString(Get(p, "detail")) /\ Truthy(Get(p, "detail")) THEN Get(p, "detail")
        ELSE IF Truthy(Get(u, "message")) THEN Get(u, "message")
        ELSE IF Truthy(Get(u, "error")) THEN Get(u, "error")
        ELSE HttpMessage(status)

\* C20: message preference order. The message of the error built from a
\* payload and a status is the message field, else the error field, else
\* the plain-text detail, else "HTTP <status>".
C20_MessagePreference ==
    (res.via \in {"buildErr", "raiseHttp"} /\ req.status # 0 /\ IsObject(req.payload))
        => res.err.message = ClaimMessage(req.payload, req.status)

\* C21: correlation id. Every typed error a blocking call raises for a
\* response that has the x-request-id header, for a non-2xx status as for a
\* 2xx body with an error marker, has the id appended to its message.
C21_RequestIdAppended ==
    (res.via = "answer" /\ res.outcome = "raised" /\ res.err.kind \in ErrorKinds /\ req.rid)
        => res.err.rid

\* C9: status fallback. A failed response whose payload has no tag of the
\* table is classified by its status alone.
C9_StatusFallback ==
    (res.via = "raiseHttp" /\ ~HasTableTag(req.payload))
        => res.err.kind = ClaimStatusKind(req.status)

\* C10: a 503 response whose body is absent or not JSON is an
\* InternalServerError with the message "HTTP 503".
C10_Unparsable503 ==
    (res.via = "raiseHttp" /\ req.status = 503 /\ req.payload = NoJSON)
        => (res.err.kind = "InternalServerError" /\ res.err.message = HttpMessage(503))

\* C35: unknown tags fall back to the status. For a payload whose tag is not
\* one of the nine of the table, a name that every object inherits included,
\* buildErr gives the kind of the status mapping.
C35_UnknownTagFallback ==
    (res.via = "buildErr" /\ ~HasTableTag(req.payload))
        => res.err.kind = ClaimStatusKind(req.status)

\* C37: the status is recorded. Every error raised for a non-2xx response
\* has that response's status in its status field, whether or not the body
\* was JSON.
C37_StatusRecorded ==
    (res.via = "raiseHttp" /\ res.outcome = "raised") => res.err.status = req.status

\* the data fragments of the lines of one event
ClaimFragments(lines) ==
    LET dl == SelectSeq(lines, LAMBDA l : StartsWith(l, DataPrefix))
    IN  [i \in 1..Len(dl) |-> Slice(dl[i], 5)]

\* C24: pull-based decoding. The accumulator never holds more than the
\* fragments of one event; a chunk is taken from the transport only when the
\* decoder has asked for one and no complete line, hence no complete
\* undelivered event, is left in its buffer; and no step delivers more than
\* one frame.
C24_PullBased ==
    /\ [](\E g \in EventGroups :
            /\ Len(dataBuf) <= Len(ClaimFragments(g.lines))
            /\ dataBuf = SubSeq(ClaimFragments(g.lines), 1, Len(dataBuf)))
    /\ [][/\ pos' # pos => (pc = "await" /\ IndexOfLF(buf) = 0)
          /\ Len(out') <= Len(out) + 1]_vars

\* the consumer holds a frame while a further complete event is in the
\* buffer, and the transport has not been asked again
C24_Witness ==
    /\ pc = "yieldLoop"
    /\ Len(out) = 1
    /\ Drain(buf, dataBuf).yielded

\* the last line of the body, the one no newline ends
ClaimLastLine ==
    LET t == Decode(<<>>, body).text
        lfs == {i \in 1..Len(t) : t[i] = LF}
        start == IF lfs = {} THEN 0 ELSE CHOOSE i \in lfs : \A j \in lfs : j <= i
    IN  SubSeq(t, start + 1, Len(t))

\* C34: fixed prefix width. Every fragment in the accumulator is a data line
\* of the body without its first five characters, a space after the colon
\* kept; a frame of the loop is parsed from such fragments joined and
\* trimmed at the two ends only; and the frame of the end-of-input flush is
\* parsed from the last line without its first five characters.
C34_FixedPrefixWidth ==
    /\ \A i \in 1..Len(dataBuf) :
          \E g \in EventGroups : \E j \in 1..Len(g.lines) :
              /\ StartsWith(g.lines[j], DataPrefix)
              /\ dataBuf[i] = SubSeq(g.lines[j], 6, Len(g.lines[j]))
    /\ pc = "yieldLoop"
          => \E g \in EventGroups :
                 LET p == JSONParse(Trim(Join(ClaimFragments(g.lines))))
                 IN  p.ok /\ p.val = last
    /\ pc = "yieldTail"
          => last = JSONParse(SubSeq(ClaimLastLine, 6, Len(ClaimLastLine))).val

\* the end-of-input flush yielded the frame of a last line that has a space
\* after the colon, after the loop had yielded a frame made of two fragments
C34_Witness ==
    /\ pc = "yieldTail"
    /\ ClaimLastLine = DataPrefix \o <<SP, "{", "}">>
    /\ Len(out) = 2
    /\ out[1] = Str(<<"a", "b">>)

\* the text the loop has taken out of buf so far
ClaimConsumed ==
    LET t == Decode(<<>>, SubSeq(body, 1, pos)).text
    IN  SubSeq(t, 1, Len(t) - Len(buf))

\* C32: accumulator reset. Wherever the decoder stops just after a blank
\* line, the accumulator is empty, whether the event before it gave a frame,
\* was empty or was dropped as malformed.
C32_AccumulatorReset ==
    (/\ Len(ClaimConsumed) >= 2
     /\ SubSeq(ClaimConsumed, Len(ClaimConsumed) - 1, Len(ClaimConsumed)) = <<LF, LF>>)
        => dataBuf = <<>>

\* an event was dropped, as malformed or as empty, and the event after it
\* gave its own frame
C32_Witness ==
    /\ Len(sent) = 2
    /\ sent[1].kind \in {"malformed", "empty"}
    /\ sent[2].kind = "multi"
    /\ pc = "yieldLoop"
    /\ out = <<sent[2].frame>>

----------------------------------------------------------------------------
(* The request keys' claims *)

RECURSIVE ClaimTransliterated(_, _)
\* the key from its i-th character on, an underscore put before each internal
\* capital and that capital lowercased, every other character as it is
ClaimTransliterated(key, i) ==
    IF i > Len(key) THEN <<>>
    ELSE (IF i > 1 /\ IsCapital(key[i]) THEN <<"_", LowerChar(key[i])>> ELSE <<key[i]>>)
             \o ClaimTransliterated(key, i + 1)

\* C29: name transliteration. The key sent is the caller's key with an
\* underscore inserted before each internal capital letter, that letter
\* lowercased, and all other characters unchanged.
C29_Transliteration ==
    res.times = 1 => res.key = ClaimTransliterated(req.key, 1)

ClaimCanonical(key) == \A i \in 1..Len(key) : ~IsCapital(key[i])

\* C30: transliteration idempotence. A key with no capital letter passes
\* through toSnakeCase unchanged, and a key that has been through it once
\* comes out of a second pass as it went in.
C30_Idempotent ==
    [][/\ (res.times = 0 /\ res'.times = 1 /\ ClaimCanonical(req.key)) => res'.key = req.key
       /\ (res.times = 1 /\ res'.times = 2) => res'.key = res.key]_vars

C30_Witness ==
    /\ res.times = 2
    /\ ~ClaimCanonical(req.key)
    /\ res.key # req.key

----------------------------------------------------------------------------
(* The calls' claims *)

RequestsOf(n) == Len(SelectSeq(io, LAMBDA e : e.what = "request" /\ e.call = n))

\* C22: no retries. Every call sends at most one request, and once a call
\* has failed, no further request goes out for it.
C22_NoRetries ==
    /\ [](\A n \in 1..Calls : RequestsOf(n) <= 1)
    /\ [][res.outcome = "raised" => Events("request")' = Events("request")]_vars

C22_Witness ==
    /\ pc = "over"
    /\ res.outcome = "raised"
    /\ res.err.status = 503
    /\ RequestsOf(Calls) = 1

\* C23: credential check before I/O. Constructing a client with no apiKey
\* option and no LLMLAYER_API_KEY in the environment fails with
\* AuthenticationError, and no request is ever sent.
C23_CredentialCheck ==
    (/\ op = "constructor"
     /\ Nullish(Prop(req.params, <<"apiKey">>))
     /\ env.key \in {Undefined, NoProcess})
        => /\ res.outcome = "raised"
           /\ res.err.kind = "AuthenticationError"
           /\ client.state # "ready"
           /\ Events("request") = <<>>

\* C26: the transport is resolved at most once over any sequence of calls.
C26_ResolvedOnce == Len(Events("resolve")) <= 1

ClaimNoCapability == ~env.globalFetch /\ ~env.undici

\* C27: resolver failure precedes the network. Where neither the global
\* fetch nor undici can be had, no request is ever sent, no call gets past
\* the resolver, and every call that is over has failed.
C27_ResolverFailureFirst ==
    ClaimNoCapability
        => /\ Events("request") = <<>>
           /\ pc \notin {"fetch", "sent"}
           /\ pc = "over" => res.outcome = "raised"

C27_Witness ==
    /\ ClaimNoCapability
    /\ op = "crawlStream"
    /\ pc = "over"
    /\ res.via = "getFetch"

\* the answer type the call asks for: the last of the two spellings that has
\* a value
ClaimAnswerType(params) ==
    LET given == {i \in 1..Len(params) :
                    /\ params[i].key \in {AnswerTypeKey, AnswerTypeCamel}
                    /\ params[i].value # Undefined}
    IN  IF given = {} THEN Undefined
        ELSE params[CHOOSE i \in given : \A j \in given : j <= i].value

\* C28: a streamAnswer call whose answer type is 'json', under either
\* spelling of the key and in any letter case, raises InvalidRequest on the
\* first pull, with no transport resolved and no request sent for it.
C28_StructuredRejected ==
    (/\ op = "streamAnswer"
     /\ pc # "created"
     /\ IsString(ClaimAnswerType(req.params))
     /\ ToLowerCase(ClaimAnswerType(req.params)) = Str(<<"json">>))
        => /\ pc = "over"
           /\ res.outcome = "raised"
           /\ res.err.kind = "InvalidRequest"
           /\ \A i \in 1..Len(io) : io[i].call = Calls => io[i].what = "call"

\* C31: unset fields are omitted. No request goes out with the value null in
\* a field of its body.
C31_NoNullSent ==
    \A i \in 1..Len(io) : io[i].what = "request" => io[i].at # JNull

\* C36: no request of streamAnswer has the answer_type 'json' in its body,
\* whichever of answer_type and answerType the caller gave, and in whichever
\* order.
C36_NoStructuredStream ==
    (op = "streamAnswer" /\ pc = "sent") => io[Len(io)].at # Str(<<"json">>)

\* C40: the status is checked before the body is streamed. A streaming call
\* that got a non-2xx response raises a classified error without reading the
\* body, whatever the body holds; one that got a 2xx response with no body
\* raises the generic error.
C40_StatusBeforeBody ==
    (op \in {"streamAnswer", "crawlStream"} /\ pc = "over" /\ req.status # 0)
        => /\ ~Ok(req.status) => (res.outcome = "raised" /\ res.err.kind \in ErrorKinds)
           /\ (Ok(req.status) /\ ~req.hasBody)
                  => (res.outcome = "raised" /\ res.err.kind = "LLMLayerError")

----------------------------------------------------------------------------
(* The concurrent calls' claim *)

RECURSIVE ClaimAlone(_, _, _)
\* what the call delivers and how it ends when the frames of its body go
\* through its loop body one after the other
ClaimAlone(o, frames, delivered) ==
    IF frames = <<>> THEN [out |-> delivered, st |-> "Ended", err |-> NoErr]
    ELSE LET c == Consume(o, Head(frames))
         IN  IF c.raised THEN [out |-> delivered, st |-> "Errored", err |-> c.err]
             ELSE ClaimAlone(o, Tail(frames), Append(delivered, c.data))

\* C25: call independence. Of two calls interleaved in any way on one client,
\* each delivers the frames and ends the way it does when it runs alone, and
\* no step of a call changes the client.
C25_CallIndependence ==
    /\ [](pc \in {"closed", "returned"}
            => [out |-> out, st |-> st, err |-> err]
                   = ClaimAlone(op, FramesOfWhole(body), <<>>))
    /\ [](other.pc \in {"closed", "returned"}
            => [out |-> other.out, st |-> other.st, err |-> other.err]
                   = ClaimAlone(other.op, FramesOfWhole(other.body), <<>>))
    /\ [][client' = client]_vars

\* both calls are over, and one of them was suspended inside the two-byte
\* character while the other one read a chunk
C25_Witness ==
    /\ pc \in {"closed", "returned"}
    /\ other.pc \in {"closed", "returned"}
    /\ splitChar
    /\ \/ out = <<Str(<<EAcute>>)>>
       \/ other.out = <<Str(<<EAcute>>)>>

\* the deadlines a call has created: none before its request, one from then on
ClaimDeadlinesOf(p) == IF p = "start" THEN 0 ELSE 1

\* C39: per-call deadlines. Of two calls interleaved in any way on one
\* client, each has a deadline from the step that issues its request and not
\* before; every deadline created is a new one of client.timeout
\* milliseconds; a step of one call leaves the other call's deadline as it
\* was; and a call whose own deadline did not abort it delivers the frames
\* and ends the way it does when it runs alone.
C39_PerCallDeadlines ==
    /\ []((pc = "start") <=> (timer = "none"))
    /\ []((other.pc = "start") <=> (other.timer = "none"))
    /\ [](/\ Len(io) = ClaimDeadlinesOf(pc) + ClaimDeadlinesOf(other.pc)
          /\ \A i \in 1..Len(io) : io[i] = [what |-> "deadline", ms |-> client.timeout])
    /\ [][\/ other' = other
          \/ timer' = other.timer /\ other'.timer = timer /\ other'.pc = pc]_vars
    /\ []((timer # "expired" /\ pc \in {"closed", "returned"})
            => [out |-> out, st |-> st, err |-> err]
                   = ClaimAlone(op, FramesOfWhole(body), <<>>))
    /\ []((other.timer # "expired" /\ other.pc \in {"closed", "returned"})
            => [out |-> other.out, st |-> other.st, err |-> other.err]
                   = ClaimAlone(other.op, FramesOfWhole(other.body), <<>>))

\* C39 witness: on a client built without timeoutMs, the deadline of one
\* call expired and aborted it before any frame, and the other call, its own
\* deadline still running, delivered its frame and ended
C39_Witness ==
    /\ client.timeout = DefaultTimeoutMs
    /\ Len(io) = 2
    /\ timer = "expired" /\ pc = "closed" /\ st = "Errored" /\ out = <<>>
    /\ other.timer = "running" /\ other.pc = "returned" /\ other.st = "Ended"
    /\ Len(other.out) = 1

====
